---------------------------- MODULE Spec2Model ----------------------------
(***************************************************************************)
(* Model of bin/print_idx_file.py: the xtream index file dumper.           *)
(*                                                                         *)
(* The script takes one path, opens the file in binary mode, reads it in   *)
(* chunks of 8 bytes and prints, for every full chunk, the two unsigned    *)
(* little-endian 32-bit integers it holds.                                 *)
(*                                                                         *)
(* Python integers are unbounded while TLC's are 32-bit signed, so a       *)
(* Python int is modelled as a sign and two 16-bit limbs:                  *)
(*     [neg |-> FALSE, hi |-> h, lo |-> l]   stands for   h * 65536 + l.   *)
(* A byte string is a sequence of numbers in 0..255, a text is a sequence  *)
(* of one-character strings.                                               *)
(***************************************************************************)
EXTENDS Integers, Sequences, FiniteSets, TLC

VARIABLES
    pc,           \* position of the interpreter in the script
    argv,         \* sys.argv
    fs_kind,      \* what the path "index.db" is on disk
    fs_data,      \* the bytes of "index.db" when it is a regular file
    file_path,    \* the local of __main__ / parameter of print_u32_values
    handle_open,  \* the file object of the with statement is open
    pos,          \* the read cursor of the file object
    chunk,        \* the local `chunk`
    stdout,       \* the lines printed so far
    exit_status,  \* the exit status of the process, -1 while it runs
    uncaught,     \* the exception that reached the top level, or "none"
    open_calls    \* number of calls of open() so far

vars == <<pc, argv, fs_kind, fs_data, file_path, handle_open, pos, chunk,
          stdout, exit_status, uncaught, open_calls>>

---------------------------------------------------------------------------
(* Bounds of the model.                                                    *)

\* longest file, in bytes: two full records and a partial tail
MaxLen == 17

\* file.read(8) and len(chunk) == 8
ChunkSize == 8

\* the 4-byte groups the files are made of
Quads == { <<0, 0, 0, 0>>, <<1, 0, 0, 0>>, <<255, 255, 255, 255>>,
           <<0, 0, 0, 128>>, <<4, 3, 2, 1>> }

\* the paths the command line can name; only "index.db" can exist
Paths == {"index.db", "other.db"}

ScriptName == "print_idx_file.py"

Min(a, b) == IF a < b THEN a ELSE b

RECURSIVE Flatten(_)
Flatten(ws) == IF ws = <<>> THEN <<>> ELSE Head(ws) \o Flatten(Tail(ws))

\* every byte string of length at most MaxLen made of the groups of Q (the
\* last group possibly cut short)
FilesOf(Q) ==
    UNION { { SubSeq(Flatten(ws), 1, n) : ws \in [1..((n + 3) \div 4) -> Q] }
            : n \in 0..MaxLen }

Files == FilesOf(Quads)

\* the files of the runs checked for termination: every length, fewer values
LiveFiles == FilesOf({ <<1, 0, 0, 0>>, <<255, 255, 255, 255>> })

---------------------------------------------------------------------------
(* The library functions the script calls.                                 *)

Imports == {"sys", "struct"}

\* file.read(size) on a regular file: the next `size` bytes, fewer at the end
file_read(data, p, size) == SubSeq(data, p + 1, Min(p + size, Len(data)))

\* the field read most significant byte first, as ">I" would
unpack_I_big_endian(b) ==
    [neg |-> FALSE, hi |-> b[2] + 256 * b[1], lo |-> b[4] + 256 * b[3]]

\* the field read as the signed "<i": two's complement when the top bit is set
unpack_i_signed(b) ==
    LET h == b[3] + 256 * b[4]
        l == b[1] + 256 * b[2]
    IN  IF h < 32768
        THEN [neg |-> FALSE, hi |-> h, lo |-> l]
        ELSE [neg |-> TRUE,
              hi |-> IF l = 0 THEN 65536 - h ELSE 65535 - h,
              lo |-> (65536 - l) % 65536]

\* one "I" field of struct.unpack("<II", ...): unsigned, little-endian
unpack_I(b) ==
    [neg |-> FALSE, hi |-> b[3] + 256 * b[4], lo |-> b[1] + 256 * b[2]]

struct_unpack(c) == << unpack_I(SubSeq(c, 1, 4)), unpack_I(SubSeq(c, 5, 8)) >>

DigitChar == << "0", "1", "2", "3", "4", "5", "6", "7", "8", "9" >>

\* the decimal digits of a non-negative int, most significant first
RECURSIVE int_digits(_)
int_digits(v) ==
    IF v.hi = 0 /\ v.lo < 10
    THEN << DigitChar[v.lo + 1] >>
    ELSE LET t == (v.hi % 10) * 65536 + v.lo
             q == [neg |-> FALSE, hi |-> v.hi \div 10, lo |-> t \div 10]
         IN  int_digits(q) \o << DigitChar[(t % 10) + 1] >>

\* format(int): what an f-string replacement field {x} yields for an int
int_format(v) == IF v.neg THEN << "-" >> \o int_digits(v) ELSE int_digits(v)

\* f"{first_u32} : {last_u32}"
record_text(first_u32, last_u32) ==
    int_format(first_u32) \o << " ", ":", " " >> \o int_format(last_u32)

\* the lines print() writes
RecordLine(first_u32, last_u32) ==
    [kind |-> "record", text |-> record_text(first_u32, last_u32),
     chunk |-> <<>>, arg |-> ""]

IncompleteLine(c) ==
    [kind |-> "Incomplete chunk:", text |-> <<>>, chunk |-> c, arg |-> ""]

NotFoundLine(path) ==
    [kind |-> "Error: File not found", text |-> <<>>, chunk |-> <<>>,
     arg |-> path]

UsageLine ==
    [kind |-> "Usage:", text |-> <<>>, chunk |-> <<>>, arg |-> "<file_name>"]

\* what open(path, "rb") finds
PathKind(path) == IF path = "index.db" THEN fs_kind ELSE "missing"

---------------------------------------------------------------------------
(* The initial states: any command line of one to three words, and any     *)
(* state of the path on disk.                                              *)

ArgVectors ==
    { <<ScriptName>> } \cup { <<ScriptName, p>> : p \in Paths }
        \cup { <<ScriptName, "index.db", "other.db">> }

InitOn(files) ==
    /\ pc = "main"
    /\ argv \in ArgVectors
    /\ \/ fs_kind = "file" /\ fs_data \in files
       \/ fs_kind \in {"missing", "directory", "denied"} /\ fs_data = <<>>
    /\ file_path = ""
    /\ handle_open = FALSE
    /\ pos = 0
    /\ chunk = <<>>
    /\ stdout = <<>>
    /\ exit_status = -1
    /\ uncaught = "none"
    /\ open_calls = 0

Init == InitOn(Files)

LiveInit == InitOn(LiveFiles)

---------------------------------------------------------------------------
(* __main__                                                                *)

\* if len(sys.argv) != 2: the first statement of the branch evaluates
\* os.path.basename, and os is not imported
main_usage ==
    /\ pc = "main"
    /\ Len(argv) # 2
    /\ IF "os" \in Imports
       THEN /\ stdout' = Append(stdout, UsageLine)
            /\ uncaught' = uncaught
       ELSE /\ stdout' = stdout
            /\ uncaught' = "NameError"
    /\ exit_status' = 1
    /\ pc' = "exited"
    /\ UNCHANGED <<argv, fs_kind, fs_data, file_path, handle_open, pos,
                   chunk, open_calls>>

\* file_path = sys.argv[1]; print_u32_values(file_path)
main_call ==
    /\ pc = "main"
    /\ Len(argv) = 2
    /\ file_path' = argv[2]
    /\ pc' = "open"
    /\ UNCHANGED <<argv, fs_kind, fs_data, handle_open, pos, chunk, stdout,
                   exit_status, uncaught, open_calls>>

\* the script runs off its end after print_u32_values returned
main_exit ==
    /\ pc = "return"
    /\ exit_status' = 0
    /\ pc' = "exited"
    /\ UNCHANGED <<argv, fs_kind, fs_data, file_path, handle_open, pos,
                   chunk, stdout, uncaught, open_calls>>

---------------------------------------------------------------------------
(* print_u32_values                                                        *)

\* with open(file_path, "rb") as file: the file exists and opens
open_ok ==
    /\ pc = "open"
    /\ PathKind(file_path) = "file"
    /\ open_calls' = open_calls + 1
    /\ handle_open' = TRUE
    /\ pos' = 0
    /\ pc' = "read"
    /\ UNCHANGED <<argv, fs_kind, fs_data, file_path, chunk, stdout,
                   exit_status, uncaught>>

\* open raises FileNotFoundError, the except clause prints and the
\* function returns
open_not_found ==
    /\ pc = "open"
    /\ PathKind(file_path) = "missing"
    /\ open_calls' = open_calls + 1
    /\ stdout' = Append(stdout, NotFoundLine(file_path))
    /\ pc' = "return"
    /\ UNCHANGED <<argv, fs_kind, fs_data, file_path, handle_open, pos,
                   chunk, exit_status, uncaught>>

\* open raises IsADirectoryError or PermissionError: no except clause
\* matches, the exception leaves the function and the script
open_fail ==
    /\ pc = "open"
    /\ PathKind(file_path) \in {"directory", "denied"}
    /\ open_calls' = open_calls + 1
    /\ uncaught' = IF PathKind(file_path) = "directory"
                   THEN "IsADirectoryError" ELSE "PermissionError"
    /\ exit_status' = 1
    /\ pc' = "exited"
    /\ UNCHANGED <<argv, fs_kind, fs_data, file_path, handle_open, pos,
                   chunk, stdout>>

\* a read that leaves the cursor in front of a short chunk
read_chunk_stuck_on_partial ==
    /\ pc = "read"
    /\ chunk' = file_read(fs_data, pos, ChunkSize)
    /\ pos' = IF Len(chunk') = ChunkSize THEN pos + ChunkSize ELSE pos
    /\ pc' = "test"
    /\ UNCHANGED <<argv, fs_kind, fs_data, file_path, handle_open, stdout,
                   exit_status, uncaught, open_calls>>

\* chunk = file.read(8)
read_chunk ==
    /\ pc = "read"
    /\ chunk' = file_read(fs_data, pos, ChunkSize)
    /\ pos' = pos + Len(chunk')
    /\ pc' = "test"
    /\ UNCHANGED <<argv, fs_kind, fs_data, file_path, handle_open, stdout,
                   exit_status, uncaught, open_calls>>

\* the read fails in a function that opened the file without a with
\* statement: nothing closes it
read_error_leak ==
    /\ pc = "read"
    /\ uncaught' = "OSError"
    /\ exit_status' = 1
    /\ pc' = "exited"
    /\ UNCHANGED <<argv, fs_kind, fs_data, file_path, handle_open, pos, chunk,
                   stdout, open_calls>>

\* file.read(8) raises OSError: the with statement closes the file, no
\* except clause matches, the exception leaves the function and the script
read_error ==
    /\ pc = "read"
    /\ handle_open' = FALSE
    /\ uncaught' = "OSError"
    /\ exit_status' = 1
    /\ pc' = "exited"
    /\ UNCHANGED <<argv, fs_kind, fs_data, file_path, pos, chunk, stdout,
                   open_calls>>

\* `continue` written for `break`: the loop reads again at the end of file
loop_break_continue ==
    /\ pc = "test"
    /\ chunk = <<>>
    /\ pc' = "read"
    /\ UNCHANGED <<argv, fs_kind, fs_data, file_path, handle_open, pos, chunk,
                   stdout, exit_status, uncaught, open_calls>>

\* the length test placed before the emptiness test: the empty chunk is
\* printed as an incomplete one before the loop ends
loop_break_after_print ==
    /\ pc = "test"
    /\ chunk = <<>>
    /\ stdout' = Append(stdout, IncompleteLine(chunk))
    /\ handle_open' = FALSE
    /\ pc' = "return"
    /\ UNCHANGED <<argv, fs_kind, fs_data, file_path, pos, chunk,
                   exit_status, uncaught, open_calls>>

\* if not chunk: break -- and the with statement closes the file
loop_break ==
    /\ pc = "test"
    /\ chunk = <<>>
    /\ handle_open' = FALSE
    /\ pc' = "return"
    /\ UNCHANGED <<argv, fs_kind, fs_data, file_path, pos, chunk, stdout,
                   exit_status, uncaught, open_calls>>

\* if len(chunk) == 8: unpack and print the record
print_record ==
    /\ pc = "test"
    /\ chunk # <<>>
    /\ Len(chunk) = ChunkSize
    /\ LET u == struct_unpack(chunk)
       IN  stdout' = Append(stdout, RecordLine(u[1], u[2]))
    /\ pc' = "read"
    /\ UNCHANGED <<argv, fs_kind, fs_data, file_path, handle_open, pos,
                   chunk, exit_status, uncaught, open_calls>>

\* an else branch that drops the short chunk without a word
print_incomplete_silent ==
    /\ pc = "test"
    /\ chunk # <<>>
    /\ Len(chunk) # ChunkSize
    /\ pc' = "read"
    /\ UNCHANGED <<argv, fs_kind, fs_data, file_path, handle_open, pos,
                   chunk, stdout, exit_status, uncaught, open_calls>>

\* else: print("Incomplete chunk:", chunk)
print_incomplete ==
    /\ pc = "test"
    /\ chunk # <<>>
    /\ Len(chunk) # ChunkSize
    /\ stdout' = Append(stdout, IncompleteLine(chunk))
    /\ pc' = "read"
    /\ UNCHANGED <<argv, fs_kind, fs_data, file_path, handle_open, pos,
                   chunk, exit_status, uncaught, open_calls>>

---------------------------------------------------------------------------

Next ==
    \/ main_usage
    \/ main_call
    \/ main_exit
    \/ open_ok
    \/ open_not_found
    \/ open_fail
    \/ read_chunk
    \/ read_error
    \/ loop_break
    \/ print_record
    \/ print_incomplete

Spec == Init /\ [][Next]_vars

\* the interpreter is the only process and always takes its next step
FairSpec == LiveInit /\ [][Next]_vars /\ WF_vars(Next)

---------------------------------------------------------------------------
(* Reading the output back: what a printed record line says, worked out    *)
(* from its characters alone.                                              *)

IsDigit(c) == \E i \in 1..10 : DigitChar[i] = c

DigitValue(c) == CHOOSE d \in 0..9 : DigitChar[d + 1] = c

\* a decimal numeral as print shows an unsigned number: digits only, no sign,
\* no leading zero
IsNumeral(ds) ==
    /\ Len(ds) \in 1..10
    /\ \A i \in 1..Len(ds) : IsDigit(ds[i])
    /\ Len(ds) > 1 => ds[1] # "0"

\* the number a numeral denotes, as limbs
RECURSIVE NumeralValue(_)
NumeralValue(ds) ==
    IF ds = <<>>
    THEN [hi |-> 0, lo |-> 0]
    ELSE LET v == NumeralValue(SubSeq(ds, 1, Len(ds) - 1))
             t == v.lo * 10 + DigitValue(ds[Len(ds)])
         IN  [hi |-> v.hi * 10 + t \div 65536, lo |-> t % 65536]

\* the text is "<numeral> : <numeral>"
SepAt(text) == CHOOSE i \in 1..Len(text) : text[i] = " "

IsRecordText(text) ==
    /\ \E i \in 1..Len(text) : text[i] = " "
    /\ LET i == SepAt(text)
       IN  /\ i + 3 <= Len(text)
           /\ SubSeq(text, i, i + 2) = << " ", ":", " " >>
           /\ IsNumeral(SubSeq(text, 1, i - 1))
           /\ IsNumeral(SubSeq(text, i + 3, Len(text)))

FirstOf(text) == NumeralValue(SubSeq(text, 1, SepAt(text) - 1))

LastOf(text) == NumeralValue(SubSeq(text, SepAt(text) + 3, Len(text)))

\* byte i (0 the least significant) of a 32-bit value
ByteOf(v, i) ==
    CASE i = 0 -> v.lo % 256
      [] i = 1 -> v.lo \div 256
      [] i = 2 -> v.hi % 256
      [] i = 3 -> v.hi \div 256

\* the value is the little-endian reading of the four bytes of data after
\* offset `at`
IsLittleEndianOf(v, data, at) ==
    \A i \in 0..3 : ByteOf(v, i) = data[at + i + 1]

\* line is the record line of the k-th record (k from 0) of data
IsRecordLineOf(line, data, k) ==
    /\ line.kind = "record"
    /\ IsRecordText(line.text)
    /\ IsLittleEndianOf(FirstOf(line.text), data, 8 * k)
    /\ IsLittleEndianOf(LastOf(line.text), data, 8 * k + 4)

\* the run named the file "index.db", which is a regular file
RunOnFile == Len(argv) = 2 /\ PathKind(argv[2]) = "file"

\* the run read its file to the end and the process is over
ReadThrough == RunOnFile /\ pc = "exited" /\ uncaught = "none"

Records == Len(fs_data) \div 8

Leftover == Len(fs_data) % 8

---------------------------------------------------------------------------
(* The claims.                                                             *)

\* C1: for a file whose length is a multiple of 8, a run that reads it to
\* the end has printed exactly length/8 lines, and the k-th line is
\* "<first> : <last>" with first the unsigned little-endian reading of bytes
\* [8k, 8k+4) and last that of bytes [8k+4, 8k+8), in file order.
C1_RecordsDecodedInOrder ==
    (ReadThrough /\ Leftover = 0) =>
        /\ Len(stdout) = Records
        /\ \A k \in 0..(Records - 1) : IsRecordLineOf(stdout[k + 1], fs_data, k)

\* two different records were printed, in the order of the file
C1_Witness ==
    /\ ReadThrough
    /\ Len(fs_data) = 16
    /\ Len(stdout) = 2
    /\ stdout[1].text = << "1", "6", "9", "0", "9", "0", "6", "0", " ", ":",
                           " ", "2", "1", "4", "7", "4", "8", "3", "6", "4",
                           "8" >>
    /\ stdout[2].text = << "0", " ", ":", " ", "1" >>

\* C2: once a partial chunk of 1 to 7 bytes has been read, the process
\* eventually ends: the loop does not run forever.
C2_PartialChunkTerminates ==
    (pc = "test" /\ Len(chunk) \in 1..7) ~> (pc = "exited")

\* a run that read a partial chunk, printed it and ended
C2_Witness ==
    /\ ReadThrough
    /\ Len(chunk) = 0
    /\ Leftover \in 1..7
    /\ stdout[Len(stdout)].kind = "Incomplete chunk:"

C4_MissingFileExitsNonZero ==
    (pc = "exited" /\ Len(argv) = 2 /\ PathKind(argv[2]) = "missing") =>
        /\ Len(stdout) = 1
        /\ stdout[1].kind = "Error: File not found"
        /\ stdout[1].arg = argv[2]
        /\ exit_status # 0

\* C5: when the number of command-line arguments is not exactly one, the
\* program prints a usage message, exits with a non-zero status and never
\* calls open.
C5_UsagePrinted ==
    (pc = "exited" /\ Len(argv) # 2) =>
        /\ \E i \in 1..Len(stdout) : stdout[i].kind = "Usage:"
        /\ exit_status # 0
        /\ open_calls = 0

\* C6: whatever goes wrong, the process ends in a handled state: no
\* exception reaches the top level.
C6_NothingUncaught == pc = "exited" => uncaught = "none"

\* C7: the file is open only inside the with statement: once
\* print_u32_values has returned or raised, at the end of the stream, after
\* a partial tail or after a failed read, the handle is closed.
C7_HandleReleased ==
    /\ pc \in {"return", "exited"} => ~handle_open
    /\ handle_open => (pc \in {"read", "test"} /\ open_calls = 1)

\* a read failed after a record had been printed, and the file is closed
C7_Witness ==
    /\ pc = "exited"
    /\ open_calls = 1
    /\ uncaught = "OSError"
    /\ Len(stdout) = 1
    /\ ~handle_open

\* the 32-bit values the encoded files are made of: 0, 1, 0x01020304,
\* 0x80000000 and 0xFFFFFFFF
U32Max == [hi |-> 65535, lo |-> 65535]

SampleU32 == { [hi |-> 0, lo |-> 0], [hi |-> 0, lo |-> 1],
               [hi |-> 258, lo |-> 772], [hi |-> 32768, lo |-> 0], U32Max }

PairSeqs(m) == [1..m -> SampleU32 \X SampleU32]

\* struct.pack("<II", first, last) of every pair, one after the other
EncodeU32(v) == << ByteOf(v, 0), ByteOf(v, 1), ByteOf(v, 2), ByteOf(v, 3) >>

RECURSIVE EncodePairs(_)
EncodePairs(ps) ==
    IF ps = <<>>
    THEN <<>>
    ELSE EncodeU32(ps[1][1]) \o EncodeU32(ps[1][2]) \o EncodePairs(Tail(ps))

TextOfMax == << "4", "2", "9", "4", "9", "6", "7", "2", "9", "5" >>

\* C8: if the file is the little-endian encoding of a sequence of pairs of
\* unsigned 32-bit values, a run that reads it to the end has printed one
\* line per pair, in order, whose two numerals denote the pair; 0xFFFFFFFF
\* is printed as 4294967295 and no numeral carries a sign.
C8_RoundTrip ==
    (ReadThrough /\ Leftover = 0) =>
        \A ps \in PairSeqs(Records) :
            EncodePairs(ps) = fs_data =>
                /\ Len(stdout) = Len(ps)
                /\ \A k \in 1..Len(ps) :
                      /\ stdout[k].kind = "record"
                      /\ IsRecordText(stdout[k].text)
                      /\ FirstOf(stdout[k].text) = ps[k][1]
                      /\ LastOf(stdout[k].text) = ps[k][2]
                      /\ ps[k][1] = U32Max =>
                            SubSeq(stdout[k].text, 1, 10) = TextOfMax
                      /\ ps[k][2] = U32Max =>
                            SubSeq(stdout[k].text,
                                   Len(stdout[k].text) - 9,
                                   Len(stdout[k].text)) = TextOfMax

\* the records (0xFFFFFFFF, 0) and (1, 1) came back as "4294967295 : 0" and
\* "1 : 1"
C8_Witness ==
    /\ ReadThrough
    /\ fs_data = EncodePairs(<< <<U32Max, [hi |-> 0, lo |-> 0]>>,
                                << [hi |-> 0, lo |-> 1], [hi |-> 0, lo |-> 1] >> >>)
    /\ Len(stdout) = 2
    /\ stdout[1].text = TextOfMax \o << " ", ":", " ", "0" >>
    /\ stdout[2].text = << "1", " ", ":", " ", "1" >>

\* C9: a run that reads a file whose length is a multiple of 8 to the end
\* exits with status 0; for the empty file nothing at all is printed.
C9_WellFormedExitsZero ==
    (ReadThrough /\ Leftover = 0) =>
        /\ exit_status = 0
        /\ Len(fs_data) = 0 => stdout = <<>>

\* the empty file was opened, read once and the process ended with status 0
C9_Witness ==
    /\ ReadThrough
    /\ Len(fs_data) = 0
    /\ open_calls = 1
    /\ stdout = <<>>
    /\ exit_status = 0

\* C10: at every moment of a run on a file of n bytes the output is a
\* prefix of: the floor(n/8) record lines of the complete records, in order,
\* then one "Incomplete chunk:" line with the leftover bytes if n mod 8 # 0;
\* a run that reads the file to the end has printed all of it.
C10_OutputShape ==
    RunOnFile =>
        /\ Len(stdout) <= Records + (IF Leftover # 0 THEN 1 ELSE 0)
        /\ \A i \in 1..Len(stdout) :
              IF i <= Records
              THEN IsRecordLineOf(stdout[i], fs_data, i - 1)
              ELSE /\ stdout[i].kind = "Incomplete chunk:"
                   /\ stdout[i].chunk =
                         SubSeq(fs_data, 8 * Records + 1, Len(fs_data))
        /\ ReadThrough =>
              Len(stdout) = Records + (IF Leftover # 0 THEN 1 ELSE 0)

\* two record lines and then the one diagnostic of a 17-byte file
C10_Witness ==
    /\ ReadThrough
    /\ Len(fs_data) >= 17
    /\ Len(stdout) = 3
    /\ stdout[1].kind = "record"
    /\ stdout[2].kind = "record"
    /\ stdout[3].kind = "Incomplete chunk:"
=============================================================================
